---- MODULE Spec2Model ----
(***************************************************************************)
(* Model of backend/main.py: the two request handlers of the privacy-      *)
(* preserving search backend.                                              *)
(*                                                                         *)
(*   GET  /search  -> search                        (main.py 95-163)       *)
(*   POST /chat    -> chat_with_search_and_summary  (main.py 176-274)      *)
(*                                                                         *)
(* main.py registers a second GET /search handler (lines 166-173) after    *)
(* the first; the router serves a path by its first matching route, so it  *)
(* is the first handler that runs, and it is the one modelled.             *)
(*                                                                         *)
(* Both handlers are plain `def` functions, which the framework runs on    *)
(* worker threads: two requests can be in flight at once.  The request-    *)
(* scoped variables below hold the request whose handler is running;       *)
(* `waiting` holds the other one, and Switch hands the processor over.     *)
(* The module-level objects the handlers read are process-wide state.      *)
(*                                                                         *)
(* One request is followed from its arrival to its HTTP response.  Each    *)
(* handler is cut into steps at its upstream calls (the SearXNG GET and    *)
(* the OpenAI completions), so the order and the number of calls are       *)
(* visible in the state.                                                   *)
(*                                                                         *)
(* Representation.  A Python str is a sequence of tokens; the token " "    *)
(* stands for whitespace, every other token for non-whitespace text.       *)
(* "" is << >>.  None is the one-token value NONE.  A Python dict is a     *)
(* function whose DOMAIN is its set of keys, so a missing key is a key     *)
(* outside DOMAIN.                                                         *)
(***************************************************************************)
EXTENDS Integers, Sequences, FiniteSets, TLC

VARIABLES
    mode,                 \* "search" | "chat": which route the request hit
    q,                    \* search: query parameter q
    category,             \* search: query parameter category
    language,             \* both: query parameter language
    num_results,          \* both: query parameter num_results (ge=1, le=20)
    payload,              \* chat: the JSON body, a dict
    provider,             \* what SearXNG answers to this request's GET
    pc,                   \* position of the handler
    params,               \* local params (the query string sent to SearXNG)
    last_messages,        \* chat local
    latest_user_message,  \* chat local
    raw_results,          \* search: raw_results / chat: search_data
    top_results,          \* local top_results
    text_for_summary,     \* local text_for_summary
    summary_text,         \* local summary_text
    calls,                \* the upstream calls made so far, in order
    returns,              \* what each of those calls met: returns[i] for calls[i]
    response,             \* the HTTP response; status 0 while in flight
    category_images,      \* process-wide: the module's dict CATEGORY_IMAGES
    searxng_url,          \* process-wide: the module's SEARXNG_URL
    waiting               \* the other request in flight, while this one runs

vars == << mode, q, category, language, num_results, payload, provider, pc,
           params, last_messages, latest_user_message, raw_results,
           top_results, text_for_summary, summary_text, calls, returns,
           response, category_images, searxng_url, waiting >>

----------------------------------------------------------------------------
(* Bounds of the model *)

\* the provider returns 0..MaxHits hits
MaxHits == 21
\* a chat history holds at most MaxUserTurns consecutive user turns ...
MaxUserTurns == 2
\* ... preceded by 0..MaxPre and followed by 0..MaxPost non-user turns
MaxPre == 14
MaxPost == 11

----------------------------------------------------------------------------
(* Program constants *)

\* num_results: int = Query(5, ge=1, le=20)
MinNumResults == 1
MaxNumResults == 20
\* messages[-10:]
WindowSize == 10
\* top_results[:5] in search
SummaryCap == 5
\* max_tokens of the two completion calls
SummaryMaxTokens == 300
ReplyMaxTokens == 400

NONE == << "<None>" >>

\* os.getenv("SEARXNG_URL", "http://localhost:8080/search")
SEARXNG_URL == << "http://localhost:8080/search" >>

CATEGORY_IMAGES ==
    [ news       |-> << "https://via.placeholder.com/100x100?text=News" >>,
      science    |-> << "https://via.placeholder.com/100x100?text=Research" >>,
      technology |-> << "https://via.placeholder.com/100x100?text=Tech" >>,
      images     |-> << "https://via.placeholder.com/100x100?text=Image" >>,
      general    |-> << "https://via.placeholder.com/100x100?text=General" >> ]

----------------------------------------------------------------------------
(* Python primitives *)

Min(a, b) == IF a <= b THEN a ELSE b

\* dict.get(key, default)
Get(d, key, default) == IF key \in DOMAIN d THEN d[key] ELSE default

\* truthiness of a str-or-None value
Truthy(v) == v # NONE /\ v # << >>

\* a or b
PyOr(a, b) == IF Truthy(a) THEN a ELSE b

\* s[:n] for n >= 0
Prefix(s, n) == SubSeq(s, 1, Min(n, Len(s)))

\* s[-n:] for n > 0
Suffix(s, n) == IF Len(s) <= n THEN s ELSE SubSeq(s, Len(s) - n + 1, Len(s))

IsSpace(tok) == tok = " "

RECURSIVE LStrip(_)
LStrip(s) == IF s # << >> /\ IsSpace(Head(s)) THEN LStrip(Tail(s)) ELSE s

RECURSIVE RStrip(_)
RStrip(s) ==
    IF s # << >> /\ IsSpace(s[Len(s)]) THEN RStrip(SubSeq(s, 1, Len(s) - 1)) ELSE s

\* str.strip()
Strip(s) == RStrip(LStrip(s))

\* str.lower() on the category names the model draws
Lower(c) ==
    CASE c = "General" -> "general"
      [] c = "News"    -> "news"
      [] OTHER         -> c

\* sep.join(parts)
RECURSIVE Join(_, _)
Join(sep, parts) ==
    IF parts = << >> THEN << >>
    ELSE IF Len(parts) = 1 THEN parts[1]
    ELSE parts[1] \o sep \o Join(sep, Tail(parts))
----------------------------------------------------------------------------
(* The upstream services *)

\* The i-th hit of the provider's answer.  Its url, title and content carry
\* the index i; which keys are missing, and what the thumbnail is (missing,
\* null, empty or a real one), changes from hit to hit.
RawHit(i) ==
    LET all   == [ url       |-> << "u", ToString(i) >>,
                   title     |-> << "t", ToString(i) >>,
                   content   |-> << "c", ToString(i) >>,
                   thumbnail |-> CASE i % 4 = 2 -> NONE
                                   [] i % 4 = 3 -> << >>
                                   [] OTHER     -> << "img", ToString(i) >> ]
        gone  == (IF i % 4 = 1 THEN {"thumbnail"} ELSE {})
                 \cup (IF i % 3 = 0 THEN {"title"} ELSE {})
                 \cup (IF i % 5 = 0 THEN {"url", "content"} ELSE {})
    IN  [ k \in DOMAIN all \ gone |-> all[k] ]

Hits(n) == [ i \in 1..n |-> RawHit(i) ]

\* SearXNG's answer: a failure (timeout, transport error, non-2xx status,
\* body that is no JSON) or a JSON body with a "results" list
ProviderFailures ==
    { [ ok |-> FALSE, results |-> << >>, error |-> << e >> ]
        : e \in { "Read timed out", "502 Server Error" } }

ProviderAnswers(maxHits) ==
    ProviderFailures
    \cup { [ ok |-> TRUE, results |-> Hits(n), error |-> << >> ] : n \in 0..maxHits }

\* One OpenAI completion: the call raises, or it returns a message whose
\* content is None, blank or a text
CompletionOutcomes ==
    { [ raised |-> TRUE, content |-> NONE, detail |-> << "Request timed out." >> ],
      [ raised |-> FALSE, content |-> NONE, detail |-> << >> ],
      [ raised |-> FALSE, content |-> << " " >>, detail |-> << >> ],
      [ raised |-> FALSE, content |-> << " ", "text", " " >>, detail |-> << >> ] }

----------------------------------------------------------------------------
(* The requests *)

Categories == { "general", "General", "news", "News", "maps" }

Languages == { "en" }

NumResults == MinNumResults..MaxNumResults

\* the texts of queries and of user turns
Contents ==
    { << >>, << " " >>, << "a" >>, << " ", "b", " " >>, << "a", " ", "b" >> }

\* a turn is a dict with a role and a str content
UserTurns == { [ role |-> "user", content |-> c ] : c \in Contents }

\* the i-th non-user turn of a run: assistant and system turns alternate and
\* each carries its index, so that order and identity of the turns show
Filler(i) ==
    [ role    |-> IF i % 2 = 1 THEN "assistant" ELSE "system",
      content |-> << "ok", ToString(i) >> ]

Pad(n) == [ i \in 1..n |-> Filler(i) ]

\* chat histories: a..b non-user turns around at most k user turns
Histories(maxPre, k, maxPost) ==
    { Pad(a) \o core \o Pad(b) :
        a \in 0..maxPre,
        core \in UNION { [ 1..n -> UserTurns ] : n \in 0..k },
        b \in 0..maxPost }

----------------------------------------------------------------------------
(* The pieces of the two handlers *)

\* SearchParams that passes the category on whatever it is
SearchParamsAlways(qs, cat, lang) ==
    [ q |-> qs, format |-> << "json" >>, language |-> << lang >>,
      categories |-> << Lower(cat) >> ]

\* search, lines 103-111: the category filter is added only if not general
SearchParams(qs, cat, lang) ==
    IF Lower(cat) # "general"
    THEN [ q |-> qs, format |-> << "json" >>, language |-> << lang >>,
           categories |-> << Lower(cat) >> ]
    ELSE [ q |-> qs, format |-> << "json" >>, language |-> << lang >> ]

\* chat, line 196
ChatParams(qs, lang) ==
    [ q |-> qs, format |-> << "json" >>, language |-> << lang >> ]

\* RequestsGet with an except clause that swallows the failure
RequestsGetSwallowed(p) ==
    [ raised |-> FALSE, results |-> p.results, detail |-> << >> ]

\* the try block around requests.get / raise_for_status / json: either it
\* raises, or it yields the body's "results" list (.get("results", []))
RequestsGet(p) ==
    IF p.ok THEN [ raised |-> FALSE, results |-> p.results, detail |-> << >> ]
            ELSE [ raised |-> TRUE,  results |-> << >>,     detail |-> p.error ]

\* raise HTTPException(status_code=..., detail=...)
HTTPException(status_code, detail) == [ status |-> status_code, detail |-> detail ]

\* a handler that returns: 200 with the returned object as the body
Ok(body) == [ status |-> 200, body |-> body ]

\* TopResults taking the last n hits instead of the first
TopResultsTail(results, n) == Suffix(results, n)

\* TopResults cut at the summary cap instead of the caller's limit
TopResultsCapped(results, n) == Prefix(results, Min(n, SummaryCap))

\* raw_results[:num_results]
TopResults(results, n) == Prefix(results, n)

\* NoResults without the early return
NoResultsNever(results) == FALSE

\* `if not top_results` (search) / `if not search_data` (chat)
NoResults(results) == results = << >>

\* the results rendered into the summary text: top_results[:5] in search,
\* all of top_results in chat
SearchContextResults(top) == Prefix(top, SummaryCap)

ChatContextResults(top) == top

\* f"Title: {..}\nURL: {..}\nSnippet: {..}\n"
Block(r) ==
    << "Title: " >> \o Get(r, "title", << >>)
    \o << "\nURL: " >> \o Get(r, "url", << >>)
    \o << "\nSnippet: " >> \o Get(r, "content", << >>) \o << "\n" >>

\* "\n".join(block for r in rs)
TextForSummary(rs) == Join(<< "\n" >>, [ i \in 1..Len(rs) |-> Block(rs[i]) ])

SummaryPrompt(text) ==
    << "You are a research assistant. Provide a concise summary of the following search results:\n\n" >>
    \o text \o << "\n" >>
    \o << "Write the summary as 3-5 bullet points focusing on key insights." >>

\* the body of a try around a completion call raises when the call raises
\* or when content is None (None.strip())
CompletionFails(o) == o.raised \/ o.content = NONE

CompletionError(o) ==
    IF o.raised THEN o.detail
    ELSE << "'NoneType' object has no attribute 'strip'" >>

\* response.choices[0].message.content.strip()
CompletionText(o) == Strip(o.content)

SummaryCall(prompt) ==
    [ api |-> "openai", purpose |-> "summary",
      messages |-> << [ role |-> "user", content |-> prompt ] >>,
      max_tokens |-> SummaryMaxTokens ]

AnswerCall(messages_for_ai) ==
    [ api |-> "openai", purpose |-> "answer",
      messages |-> messages_for_ai, max_tokens |-> ReplyMaxTokens ]

SearchCall(p) ==
    [ api |-> "searxng", purpose |-> "search", url |-> searxng_url, params |-> p ]

\* chat, line 236
SummaryOnError == << "Error generating summary." >>

\* ReplyOnError leaving the reply unset
ReplyOnErrorNone(e) == NONE

\* chat, line 256
ReplyOnError(e) == << "Error generating chat reply: " >> \o e

\* SearchImage that prefers the placeholder to the thumbnail
SearchImagePlaceholderFirst(r, cat) ==
    PyOr(Get(category_images, Lower(cat), category_images["general"]),
         Get(r, "thumbnail", NONE))

\* SearchImage as r.get("thumbnail", placeholder): no fallback for a
\* thumbnail that is present but null or empty
SearchImageGetDefault(r, cat) ==
    Get(r, "thumbnail",
        Get(category_images, Lower(cat), category_images["general"]))

\* search, line 154
SearchImage(r, cat) ==
    PyOr(Get(r, "thumbnail", NONE),
         Get(category_images, Lower(cat), category_images["general"]))

\* chat, line 264
ChatImage(r) ==
    PyOr(Get(r, "thumbnail", NONE), Get(category_images, "general", NONE))

\* search, lines 150-155
SearchResult(r, cat) ==
    [ url     |-> Get(r, "url", << >>),
      title   |-> Get(r, "title", << >>),
      content |-> Get(r, "content", << >>),
      image   |-> SearchImage(r, cat) ]

\* chat, lines 260-265
ChatResult(r) ==
    [ url     |-> Get(r, "url", << >>),
      title   |-> Get(r, "title", << >>),
      content |-> Get(r, "content", << >>),
      image   |-> ChatImage(r) ]

\* search, line 124
SearchEmptyResponse(qs) ==
    [ query |-> qs, results |-> << >>, summary |-> << "No results found." >> ]

\* chat, lines 205-210
ChatEmptyResponse(qs) ==
    [ query   |-> qs,
      results |-> << >>,
      summary |-> << "No search results found." >>,
      reply   |-> << "I couldn't find any relevant search results." >> ]

\* chat, line 183
Messages(body) == Get(body, "messages", << >>)

\* chat, line 184: any(role == "user" and content.strip() for m in messages)
AnyUserContent(messages) ==
    \E i \in 1..Len(messages) :
        /\ Get(messages[i], "role", "") = "user"
        /\ Truthy(Strip(Get(messages[i], "content", << >>)))

\* chat, line 184
EmptyMessages(messages) == messages = << >> \/ ~AnyUserContent(messages)

\* LastMessages with a window one turn too long
LastMessagesEleven(messages) == Suffix(messages, WindowSize + 1)

\* LastMessages without the window
LastMessagesAll(messages) == messages

\* chat, line 188
LastMessages(messages) == Suffix(messages, WindowSize)

IsUser(m) == Get(m, "role", "") = "user"

\* chat, line 190
UserMessages(last) == SelectSeq(last, IsUser)

\* LatestUserMessage taking the first user message of the window
LatestUserMessageFirst(user_messages) == Strip(user_messages[1].content)

\* chat, line 193
LatestUserMessage(user_messages) ==
    Strip(user_messages[Len(user_messages)].content)

\* MessagesForAi whose grounding turn leaves the summary out
MessagesForAiNoSummary(last, summary, text) ==
    Append(last,
           [ role    |-> "system",
             content |-> << "Use the following context to answer the user:\n" >>
                         \o << "Search Results:\n" >> \o text ])

\* chat, lines 239-245
MessagesForAi(last, summary, text) ==
    Append(last,
           [ role    |-> "system",
             content |-> << "Use the following context to answer the user:\n" >>
                         \o << "Search Summary:\n" >> \o summary \o << "\n\n" >>
                         \o << "Search Results:\n" >> \o text ])

----------------------------------------------------------------------------
(* The state at the arrival of a request *)

\* a request as its handler is entered: the parameters, the body, what the
\* provider will answer, and the handler's locals still unset
Arrival(route, qs, cat, lang, limit, body, answer) ==
    [ mode                |-> route,
      q                   |-> qs,
      category            |-> cat,
      language            |-> lang,
      num_results         |-> limit,
      payload             |-> body,
      provider            |-> answer,
      pc                  |-> IF route = "search" THEN "search" ELSE "validate",
      params              |-> << >>,
      last_messages       |-> << >>,
      latest_user_message |-> << >>,
      raw_results         |-> << >>,
      top_results         |-> << >>,
      text_for_summary    |-> << >>,
      summary_text        |-> << >>,
      calls               |-> << >>,
      returns             |-> << >>,
      response            |-> [ status |-> 0 ] ]

RequestsAtArrival(queries, categories, limits, histories, answers) ==
    { Arrival("search", qs, cat, lang, limit, [ messages |-> << >> ], answer) :
        qs \in queries, cat \in categories, lang \in Languages,
        limit \in limits, answer \in answers }
    \cup
    { Arrival("chat", << >>, "general", lang, limit, [ messages |-> h ], answer) :
        h \in histories, lang \in Languages, limit \in limits, answer \in answers }

\* no other request in flight
NoRequest == [ pc |-> "none" ]

\* the request-scoped variables hold request r
Running(r) ==
    /\ mode = r.mode
    /\ q = r.q
    /\ category = r.category
    /\ language = r.language
    /\ num_results = r.num_results
    /\ payload = r.payload
    /\ provider = r.provider
    /\ pc = r.pc
    /\ params = r.params
    /\ last_messages = r.last_messages
    /\ latest_user_message = r.latest_user_message
    /\ raw_results = r.raw_results
    /\ top_results = r.top_results
    /\ text_for_summary = r.text_for_summary
    /\ summary_text = r.summary_text
    /\ calls = r.calls
    /\ returns = r.returns
    /\ response = r.response

\* the process-wide state after the module has been imported
Imported ==
    /\ category_images = CATEGORY_IMAGES
    /\ searxng_url = SEARXNG_URL

InitWith(queries, categories, limits, histories, answers) ==
    /\ Imported
    /\ waiting = NoRequest
    /\ \E r \in RequestsAtArrival(queries, categories, limits, histories, answers) :
          Running(r)

\* every result limit against every number of hits, short histories
Init ==
    InitWith({ << >>, << "a" >> }, Categories, NumResults,
             Histories(0, 1, 1), ProviderAnswers(MaxHits))

\* every history shape, one result limit, at most one hit
InitWindow ==
    InitWith(Contents, { "general" }, { 5 },
             Histories(MaxPre, MaxUserTurns, MaxPost),
             ProviderFailures \cup { [ ok |-> TRUE, results |-> Hits(n), error |-> << >> ] : n \in 0..1 })

\* two requests in flight at once
ConcurrentRequests ==
    RequestsAtArrival({ << "a" >> }, { "general", "news" }, { 2 },
                      { << [ role |-> "user", content |-> << "a" >> ] >>,
                        << [ role |-> "user", content |-> << " ", "b", " " >> ] >> },
                      ProviderFailures \cup { [ ok |-> TRUE, results |-> Hits(n), error |-> << >> ] : n \in 0..2 })

InitConcurrent ==
    /\ Imported
    /\ waiting \in ConcurrentRequests
    /\ \E r \in ConcurrentRequests : Running(r)

----------------------------------------------------------------------------
(* GET /search *)

\* lines 103-136: the SearXNG call, truncation, the text to summarize
SearchFetch ==
    /\ mode = "search"
    /\ pc = "search"
    /\ LET p   == SearchParams(q, category, language)
           got == RequestsGet(provider)
           top == TopResults(got.results, num_results)
       IN  /\ params' = p
           /\ calls' = Append(calls, SearchCall(p))
           /\ returns' = Append(returns, provider)
           /\ IF got.raised
              THEN /\ response' = HTTPException(502, << "Error contacting SearXNG: " >> \o got.detail)
                   /\ pc' = "done"
                   /\ UNCHANGED << raw_results, top_results, text_for_summary >>
              ELSE /\ raw_results' = got.results
                   /\ top_results' = top
                   /\ IF NoResults(top)
                      THEN /\ response' = Ok(SearchEmptyResponse(q))
                           /\ pc' = "done"
                           /\ UNCHANGED text_for_summary
                      ELSE /\ text_for_summary' = TextForSummary(SearchContextResults(top))
                           /\ pc' = "summarize"
                           /\ UNCHANGED response
    /\ UNCHANGED << category_images, searxng_url, waiting >>
    /\ UNCHANGED << mode, q, category, language, num_results, payload, provider,
                    last_messages, latest_user_message, summary_text >>

\* SearchSummarize that stores the category's placeholder as the general one
\* in the module's dict
SearchSummarizeCaching ==
    /\ mode = "search"
    /\ pc = "summarize"
    /\ \E o \in CompletionOutcomes :
          /\ calls' = Append(calls, SummaryCall(SummaryPrompt(text_for_summary)))
          /\ returns' = Append(returns, o)
          /\ IF CompletionFails(o)
             THEN /\ response' = HTTPException(502, << "Error contacting OpenAI: " >> \o CompletionError(o))
                  /\ UNCHANGED summary_text
             ELSE /\ summary_text' = CompletionText(o)
                  /\ response' =
                        Ok([ query   |-> q,
                             results |-> [ i \in 1..Len(top_results) |->
                                             SearchResult(top_results[i], category) ],
                             summary |-> CompletionText(o) ])
    /\ pc' = "done"
    /\ category_images' =
          [ category_images EXCEPT
              !["general"] = Get(category_images, Lower(category), category_images["general"]) ]
    /\ UNCHANGED << searxng_url, waiting >>
    /\ UNCHANGED << mode, q, category, language, num_results, payload, provider,
                    params, last_messages, latest_user_message, raw_results,
                    top_results, text_for_summary >>

\* lines 138-163: the summary call, normalization, the response
SearchSummarize ==
    /\ mode = "search"
    /\ pc = "summarize"
    /\ \E o \in CompletionOutcomes :
          /\ calls' = Append(calls, SummaryCall(SummaryPrompt(text_for_summary)))
          /\ returns' = Append(returns, o)
          /\ IF CompletionFails(o)
             THEN /\ response' = HTTPException(502, << "Error contacting OpenAI: " >> \o CompletionError(o))
                  /\ UNCHANGED summary_text
             ELSE /\ summary_text' = CompletionText(o)
                  /\ response' =
                        Ok([ query   |-> q,
                             results |-> [ i \in 1..Len(top_results) |->
                                             SearchResult(top_results[i], category) ],
                             summary |-> CompletionText(o) ])
    /\ pc' = "done"
    /\ UNCHANGED << category_images, searxng_url, waiting >>
    /\ UNCHANGED << mode, q, category, language, num_results, payload, provider,
                    params, last_messages, latest_user_message, raw_results,
                    top_results, text_for_summary >>

----------------------------------------------------------------------------
(* POST /chat *)

\* lines 183-193: the two rejections, the window, the latest user message
ChatValidate ==
    /\ mode = "chat"
    /\ pc = "validate"
    /\ LET messages == Messages(payload)
           last     == LastMessages(messages)
           users    == UserMessages(last)
       IN  IF EmptyMessages(messages)
           THEN /\ response' = HTTPException(400, << "Empty messages" >>)
                /\ pc' = "done"
                /\ UNCHANGED << last_messages, latest_user_message >>
           ELSE IF users = << >>
           THEN /\ response' = HTTPException(400, << "No user message found in last 10 messages" >>)
                /\ pc' = "done"
                /\ last_messages' = last
                /\ UNCHANGED latest_user_message
           ELSE /\ last_messages' = last
                /\ latest_user_message' = LatestUserMessage(users)
                /\ pc' = "search"
                /\ UNCHANGED response
    /\ UNCHANGED << category_images, searxng_url, waiting >>
    /\ UNCHANGED << mode, q, category, language, num_results, payload, provider,
                    params, raw_results, top_results, text_for_summary,
                    summary_text, calls, returns >>

\* lines 196-226: the SearXNG call, truncation, the text to summarize
ChatFetch ==
    /\ mode = "chat"
    /\ pc = "search"
    /\ LET p   == ChatParams(latest_user_message, language)
           got == RequestsGet(provider)
           top == TopResults(got.results, num_results)
       IN  /\ params' = p
           /\ calls' = Append(calls, SearchCall(p))
           /\ returns' = Append(returns, provider)
           /\ IF got.raised
              THEN /\ response' = HTTPException(502, << "Error contacting SearXNG: " >> \o got.detail)
                   /\ pc' = "done"
                   /\ UNCHANGED << raw_results, top_results, text_for_summary >>
              ELSE /\ raw_results' = got.results
                   /\ IF NoResults(got.results)
                      THEN /\ response' = Ok(ChatEmptyResponse(latest_user_message))
                           /\ pc' = "done"
                           /\ UNCHANGED << top_results, text_for_summary >>
                      ELSE /\ top_results' = top
                           /\ text_for_summary' = TextForSummary(ChatContextResults(top))
                           /\ pc' = "summarize"
                           /\ UNCHANGED response
    /\ UNCHANGED << category_images, searxng_url, waiting >>
    /\ UNCHANGED << mode, q, category, language, num_results, payload, provider,
                    last_messages, latest_user_message, summary_text >>

\* ChatSummarize that calls again after a failed summary call
ChatSummarizeRetrying ==
    /\ mode = "chat"
    /\ pc = "summarize"
    /\ \E o \in CompletionOutcomes :
          /\ calls' = Append(calls, SummaryCall(SummaryPrompt(text_for_summary)))
          /\ returns' = Append(returns, o)
          /\ summary_text' = IF CompletionFails(o) THEN SummaryOnError
                                                   ELSE CompletionText(o)
          /\ pc' = IF CompletionFails(o) THEN "summarize" ELSE "answer"
    /\ UNCHANGED << category_images, searxng_url, waiting >>
    /\ UNCHANGED << mode, q, category, language, num_results, payload, provider,
                    params, last_messages, latest_user_message, raw_results,
                    top_results, text_for_summary, response >>

\* lines 227-236: the summary call and its fallback
ChatSummarize ==
    /\ mode = "chat"
    /\ pc = "summarize"
    /\ \E o \in CompletionOutcomes :
          /\ calls' = Append(calls, SummaryCall(SummaryPrompt(text_for_summary)))
          /\ returns' = Append(returns, o)
          /\ summary_text' = IF CompletionFails(o) THEN SummaryOnError
                                                   ELSE CompletionText(o)
    /\ pc' = "answer"
    /\ UNCHANGED << category_images, searxng_url, waiting >>
    /\ UNCHANGED << mode, q, category, language, num_results, payload, provider,
                    params, last_messages, latest_user_message, raw_results,
                    top_results, text_for_summary, response >>

\* lines 238-274: the answer call and its fallback, normalization, the response
ChatAnswer ==
    /\ mode = "chat"
    /\ pc = "answer"
    /\ \E o \in CompletionOutcomes :
          LET messages_for_ai == MessagesForAi(last_messages, summary_text, text_for_summary)
              reply_text == IF CompletionFails(o) THEN ReplyOnError(CompletionError(o))
                                                  ELSE CompletionText(o)
          IN  /\ calls' = Append(calls, AnswerCall(messages_for_ai))
              /\ returns' = Append(returns, o)
              /\ response' =
                    Ok([ query   |-> latest_user_message,
                         results |-> [ i \in 1..Len(top_results) |-> ChatResult(top_results[i]) ],
                         summary |-> summary_text,
                         reply   |-> reply_text ])
    /\ pc' = "done"
    /\ UNCHANGED << category_images, searxng_url, waiting >>
    /\ UNCHANGED << mode, q, category, language, num_results, payload, provider,
                    params, last_messages, latest_user_message, raw_results,
                    top_results, text_for_summary, summary_text >>

----------------------------------------------------------------------------

Next ==
    \/ SearchFetch
    \/ SearchSummarize
    \/ ChatValidate
    \/ ChatFetch
    \/ ChatSummarize
    \/ ChatAnswer

Spec == Init /\ [][Next]_vars

\* the running request as a record
Context ==
    [ mode                |-> mode,
      q                   |-> q,
      category            |-> category,
      language            |-> language,
      num_results         |-> num_results,
      payload             |-> payload,
      provider            |-> provider,
      pc                  |-> pc,
      params              |-> params,
      last_messages       |-> last_messages,
      latest_user_message |-> latest_user_message,
      raw_results         |-> raw_results,
      top_results         |-> top_results,
      text_for_summary    |-> text_for_summary,
      summary_text        |-> summary_text,
      calls               |-> calls,
      returns             |-> returns,
      response            |-> response ]

\* the worker thread of the other request gets the processor: between any
\* two steps of a handler, any number of steps of the other may run
Switch ==
    /\ waiting # NoRequest
    /\ waiting' = Context
    /\ mode' = waiting.mode
    /\ q' = waiting.q
    /\ category' = waiting.category
    /\ language' = waiting.language
    /\ num_results' = waiting.num_results
    /\ payload' = waiting.payload
    /\ provider' = waiting.provider
    /\ pc' = waiting.pc
    /\ params' = waiting.params
    /\ last_messages' = waiting.last_messages
    /\ latest_user_message' = waiting.latest_user_message
    /\ raw_results' = waiting.raw_results
    /\ top_results' = waiting.top_results
    /\ text_for_summary' = waiting.text_for_summary
    /\ summary_text' = waiting.summary_text
    /\ calls' = waiting.calls
    /\ returns' = waiting.returns
    /\ response' = waiting.response
    /\ UNCHANGED << category_images, searxng_url >>

NextConcurrent ==
    \/ SearchFetch
    \/ SearchSummarize
    \/ ChatValidate
    \/ ChatFetch
    \/ ChatSummarize
    \/ ChatAnswer
    \/ Switch

SpecConcurrent == InitConcurrent /\ [][NextConcurrent]_vars

SpecWindow == InitWindow /\ [][Next]_vars

----------------------------------------------------------------------------
(* What the claims speak about *)

SearchCalls == SelectSeq(calls, LAMBDA c : c.api = "searxng")

CompletionCalls == SelectSeq(calls, LAMBDA c : c.api = "openai")

\* the SearXNG call was made and failed / succeeded
SearchFailed == \E i \in 1..Len(calls) : calls[i].api = "searxng" /\ ~returns[i].ok

SearchSucceeded == \E i \in 1..Len(calls) : calls[i].api = "searxng" /\ returns[i].ok

UpstreamHits == provider.results

\* the completion call for `purpose` was made and failed
CompletionFailed(purpose) ==
    \E i \in 1..Len(calls) :
        /\ calls[i].api = "openai"
        /\ calls[i].purpose = purpose
        /\ (returns[i].raised \/ returns[i].content = NONE)

Returned == response.status = 200

\* the indices of the trailing 10 turns of history h
Trailing(h) == { i \in 1..Len(h) : i > Len(h) - 10 }

UserIn(h, I) == { i \in I : h[i].role = "user" }

\* the last user-role turn among the trailing 10 turns
LastUserTurn(h) ==
    LET U == UserIn(h, Trailing(h))
    IN  h[CHOOSE i \in U : \A j \in U : j <= i]

Blank(text) == \A i \in 1..Len(text) : text[i] = " "

History == payload.messages

----------------------------------------------------------------------------
(* C1 *)

\* C1: whenever the search call succeeded with at least one hit, the request
\* never ends in an error status: once it has ended, the response is a normal
\* one carrying the truncated results, with summary "Error generating
\* summary." when summarization failed.
C1_CompletionFailureNeverAborts ==
    (pc = "done" /\ SearchSucceeded /\ UpstreamHits # << >>) =>
        /\ Returned
        /\ Len(response.body.results) = Min(num_results, Len(UpstreamHits))
        /\ (CompletionFailed("summary") =>
                response.body.summary = << "Error generating summary." >>)

----------------------------------------------------------------------------
(* C2 *)

\* C2: if the search provider call fails, the request has ended with status
\* 502 and no completion call has been made.
C2_SearchFailureAborts ==
    SearchFailed =>
        /\ pc = "done"
        /\ response.status = 502
        /\ CompletionCalls = << >>
        /\ Len(calls) = 1

C2_Witness ==
    /\ mode = "chat"
    /\ SearchFailed
    /\ provider.error = << "Read timed out" >>
    /\ response.status = 502

----------------------------------------------------------------------------
(* C3 *)

\* C3: every normal response of a chat request has a reply that is a text,
\* never absent and never None.
C3_ChatReplyPresent ==
    (mode = "chat" /\ Returned) =>
        /\ "reply" \in DOMAIN response.body
        /\ response.body.reply # NONE

C3_Witness ==
    /\ mode = "chat"
    /\ Returned
    /\ CompletionFailed("summary")
    /\ CompletionFailed("answer")
    /\ response.body.reply # NONE

----------------------------------------------------------------------------
(* C4 *)

\* C4: a chat request whose trailing 10 turns hold no user-role turn makes no
\* upstream call at all and, once handled, has been rejected with status 400.
C4_NoUserTurnRejected ==
    (mode = "chat" /\ UserIn(History, Trailing(History)) = {}) =>
        /\ calls = << >>
        /\ pc \in { "validate", "done" }
        /\ (pc = "done" => response.status = 400)

\* a user turn with text lies before the trailing 10, none within them
C4_Witness ==
    /\ mode = "chat"
    /\ pc = "done"
    /\ response.status = 400
    /\ UserIn(History, Trailing(History)) = {}
    /\ \E i \in 1..Len(History) :
          History[i].role = "user" /\ ~Blank(History[i].content)

----------------------------------------------------------------------------
(* C5 *)

Accepted == mode = "chat" /\ pc # "validate" /\ response.status # 400

\* C5 as claimed: the active query of an accepted chat request (sent to the
\* provider, returned as query) equals the content of the last user-role turn
\* among the trailing 10 turns.
C5_QueryIsLastUserContent ==
    Accepted =>
        /\ \A i \in 1..Len(calls) :
              calls[i].api = "searxng" => calls[i].params.q = LastUserTurn(History).content
        /\ (Returned => response.body.query = LastUserTurn(History).content)

\* C5 as amended: it equals that content with leading and trailing
\* whitespace removed.
C5_QueryIsStrippedLastUserContent ==
    Accepted =>
        LET c == LastUserTurn(History).content
            stripped == IF Blank(c) THEN << >>
                        ELSE LET lo == CHOOSE i \in 1..Len(c) : c[i] # " " /\ \A j \in 1..(i - 1) : c[j] = " "
                                 hi == CHOOSE i \in 1..Len(c) : c[i] # " " /\ \A j \in (i + 1)..Len(c) : c[j] = " "
                             IN  SubSeq(c, lo, hi)
        IN  /\ latest_user_message = stripped
            /\ \A i \in 1..Len(calls) :
                  calls[i].api = "searxng" => calls[i].params.q = stripped
            /\ (Returned => response.body.query = stripped)

\* the last user turn of the window has surrounding whitespace, and another
\* user turn with another text precedes it
C5_Witness ==
    /\ Accepted
    /\ Returned
    /\ LastUserTurn(History).content = << " ", "b", " " >>
    /\ History[1] = [ role |-> "user", content |-> << "a" >> ]
    /\ response.body.query = << "b" >>

----------------------------------------------------------------------------
(* C6 *)

\* C6: a normal response returns exactly min(num_results, number of upstream
\* hits) results.
C6_ResultCount ==
    Returned => Len(response.body.results) = Min(num_results, Len(UpstreamHits))

C6_Witness ==
    /\ Returned
    /\ num_results = 20
    /\ Len(UpstreamHits) > 20
    /\ Len(response.body.results) = 20

----------------------------------------------------------------------------
(* C7 *)

\* C7: when the search call succeeds with zero hits, no completion call is
\* made and the request has ended with a normal response: no results, the
\* mode's "no results" summary and, in chat mode, the "couldn't find" reply.
C7_EmptyResults ==
    (SearchSucceeded /\ UpstreamHits = << >>) =>
        /\ CompletionCalls = << >>
        /\ pc = "done"
        /\ Returned
        /\ response.body.results = << >>
        /\ mode = "search" =>
              /\ response.body.summary = << "No results found." >>
              /\ "reply" \notin DOMAIN response.body
        /\ mode = "chat" =>
              /\ response.body.summary = << "No search results found." >>
              /\ response.body.reply = << "I couldn't find any relevant search results." >>

C7_Witness ==
    /\ mode = "chat"
    /\ SearchSucceeded
    /\ UpstreamHits = << >>
    /\ Returned
    /\ response.body.reply = << "I couldn't find any relevant search results." >>

----------------------------------------------------------------------------
(* C8 *)

\* the query the request asks for: q, or the content of the last user-role
\* turn among the trailing 10
EmptyQueryRequest ==
    \/ mode = "search" /\ q = << >>
    \/ /\ mode = "chat"
       /\ UserIn(History, Trailing(History)) # {}
       /\ Blank(LastUserTurn(History).content)

\* C8: no search call carries an empty query: a request whose query is empty
\* (search) or blank (chat) makes no upstream call and is rejected with
\* status 400.
C8_NoEmptyQuerySearch ==
    /\ \A i \in 1..Len(calls) :
          calls[i].api = "searxng" => calls[i].params.q # << >>
    /\ EmptyQueryRequest =>
          /\ calls = << >>
          /\ (pc = "done" => response.status = 400)

----------------------------------------------------------------------------
(* C9 *)

\* C9: every result of a normal response has an image that is a non-empty
\* text.
C9_ImageNeverEmpty ==
    Returned =>
        \A i \in 1..Len(response.body.results) :
            /\ "image" \in DOMAIN response.body.results[i]
            /\ response.body.results[i].image # NONE
            /\ response.body.results[i].image # << >>

\* a category outside the placeholder table; hits whose thumbnail is
\* missing, null and empty among the results
C9_Witness ==
    /\ mode = "search"
    /\ category = "maps"
    /\ Returned
    /\ Len(response.body.results) >= 3
    /\ "thumbnail" \notin DOMAIN UpstreamHits[1]
    /\ UpstreamHits[2].thumbnail = NONE
    /\ UpstreamHits[3].thumbnail = << >>

----------------------------------------------------------------------------
(* C10 *)

\* C10: the text given to the completion prompts is built from exactly the
\* first min(num_results, 5, number of hits) upstream hits, in upstream order.
C10_ContextFromCappedPrefix ==
    (SearchSucceeded /\ UpstreamHits # << >>) =>
        LET n == Min(Min(num_results, 5), Len(UpstreamHits))
        IN  text_for_summary = TextForSummary(SubSeq(UpstreamHits, 1, n))

----------------------------------------------------------------------------
(* C11 *)

\* the positions in calls of the completion calls made for `purpose`
CallsFor(purpose) ==
    { i \in 1..Len(calls) : calls[i].api = "openai" /\ calls[i].purpose = purpose }

\* text starts with the tokens of part at position at
HoldsAt(text, at, part) ==
    /\ Len(text) >= at + Len(part) - 1
    /\ SubSeq(text, at, at + Len(part) - 1) = part

\* C11: in chat mode with a non-empty result set, the answer call is made
\* only after the summary call has finished, it is made whether or not the
\* summary call failed, and its grounding turn embeds the summary value that
\* the response returns as summary (the sentinel "Error generating summary."
\* when the summary call failed).
C11_AnswerAfterSummary ==
    mode = "chat" =>
        /\ \A i \in CallsFor("answer") :
              /\ \E j \in CallsFor("summary") : j < i /\ j <= Len(returns)
              /\ LET m == calls[i].messages
                     grounding == m[Len(m)]
                 IN  /\ grounding.role = "system"
                     /\ HoldsAt(grounding.content, 2, << "Search Summary:\n" >>)
                     /\ HoldsAt(grounding.content, 3, summary_text \o << "\n\n" >>)
                     /\ Returned => response.body.summary = summary_text
                     /\ CompletionFailed("summary") =>
                           summary_text = << "Error generating summary." >>
        /\ (pc = "done" /\ SearchSucceeded /\ UpstreamHits # << >>) =>
              CallsFor("answer") # {}
        /\ (pc = "answer") => CallsFor("summary") # {} /\ CallsFor("answer") = {}

\* Scenario B: one user turn, 3 hits, the summary call raised
C11_Witness ==
    /\ mode = "chat"
    /\ Len(History) = 1
    /\ Len(UpstreamHits) = 3
    /\ Returned
    /\ CompletionFailed("summary")
    /\ CallsFor("answer") # {}
    /\ response.body.summary = << "Error generating summary." >>
    /\ response.body.reply # << >>

----------------------------------------------------------------------------
(* C12 *)

\* C12: the messages sent to the answer call are the trailing min(n, 10)
\* turns of the n-turn history, in order and unmodified, followed by exactly
\* one turn with role system: never more than 11 turns.
C12_AnswerMessages ==
    \A i \in CallsFor("answer") :
        LET h == History
            n == Len(h)
            k == IF n < 10 THEN n ELSE 10
            m == calls[i].messages
        IN  /\ Len(m) = k + 1
            /\ Len(m) <= 11
            /\ \A j \in 1..k : m[j] = h[n - k + j]
            /\ m[k + 1].role = "system"

\* Scenario D: 15 turns, the last user turn at position 15
C12_Witness ==
    /\ Len(History) = 15
    /\ History[15].role = "user"
    /\ \E i \in CallsFor("answer") :
          /\ Len(calls[i].messages) = 11
          /\ calls[i].messages[1] = History[6]
          /\ calls[i].messages[10] = History[15]

----------------------------------------------------------------------------
(* C13 *)

\* C13: one request makes at most one search call, at most one summary call
\* and at most one answer call, and a search-mode request makes no answer
\* call.
C13_NoRetry ==
    /\ Len(SearchCalls) <= 1
    /\ Cardinality(CallsFor("summary")) <= 1
    /\ Cardinality(CallsFor("answer")) <= 1
    /\ mode = "search" => CallsFor("answer") = {}

\* both completion calls failed and the request has ended with three calls
C13_Witness ==
    /\ mode = "chat"
    /\ pc = "done"
    /\ CompletionFailed("summary")
    /\ CompletionFailed("answer")
    /\ Len(calls) = 3

----------------------------------------------------------------------------
(* C14 *)

\* C14 as claimed: the search request sent upstream carries a category filter
\* if and only if the requested category is not "general", the filter then
\* equals that category, and a chat-mode search never carries one.
C14_FilterIffNotGeneral ==
    \A i \in 1..Len(calls) :
        calls[i].api = "searxng" =>
            LET sent == calls[i].params
            IN  /\ mode = "chat" => "categories" \notin DOMAIN sent
                /\ mode = "search" =>
                      /\ "categories" \in DOMAIN sent <=> category # "general"
                      /\ "categories" \in DOMAIN sent => sent.categories = << category >>

\* C14 as amended: the category is lower-cased first.  The filter is left out
\* if and only if the lower-cased category is "general", and otherwise equals
\* the lower-cased category; a chat-mode search never carries one.
C14_FilterIffLowerNotGeneral ==
    \A i \in 1..Len(calls) :
        calls[i].api = "searxng" =>
            LET sent == calls[i].params
            IN  /\ mode = "chat" => "categories" \notin DOMAIN sent
                /\ mode = "search" =>
                      /\ category \in { "general", "General" } =>
                            "categories" \notin DOMAIN sent
                      /\ category \in { "news", "News" } =>
                            "categories" \in DOMAIN sent /\ sent.categories = << "news" >>
                      /\ category = "maps" =>
                            "categories" \in DOMAIN sent /\ sent.categories = << "maps" >>
                      /\ category \in { "general", "General", "news", "News", "maps" }

C14_Witness ==
    /\ mode = "search"
    /\ category = "News"
    /\ Len(calls) >= 1
    /\ calls[1].api = "searxng"
    /\ calls[1].params.categories = << "news" >>

----------------------------------------------------------------------------
(* C15 *)

HasThumbnail(hit) ==
    /\ "thumbnail" \in DOMAIN hit
    /\ hit.thumbnail # NONE
    /\ hit.thumbnail # << >>

\* the field of the hit, or "" when the hit has no such field
FieldOrEmpty(hit, key) == IF key \in DOMAIN hit THEN hit[key] ELSE << >>

GeneralPlaceholder == << "https://via.placeholder.com/100x100?text=General" >>

NewsPlaceholder == << "https://via.placeholder.com/100x100?text=News" >>

\* every result of a normal response: its url, title and content are the
\* hit's or "", and its image is the thumbnail or placeholder(hit)
NormalizedWith(placeholder) ==
    Returned =>
        \A i \in 1..Len(response.body.results) :
            LET hit == UpstreamHits[i]
                res == response.body.results[i]
            IN  /\ res.url = FieldOrEmpty(hit, "url")
                /\ res.title = FieldOrEmpty(hit, "title")
                /\ res.content = FieldOrEmpty(hit, "content")
                /\ res.image = IF HasThumbnail(hit) THEN hit.thumbnail ELSE placeholder

\* C15 as claimed: the image is the thumbnail when present and non-empty,
\* else the placeholder of the requested category when that category is in the
\* placeholder table, else the general placeholder; missing url, title and
\* content are "".
C15_ThreeTierImage ==
    NormalizedWith(IF category \in DOMAIN CATEGORY_IMAGES
                   THEN CATEGORY_IMAGES[category]
                   ELSE GeneralPlaceholder)

\* C15 as amended: the placeholder table is looked up with the lower-cased
\* requested category (a chat request has none and gets the general one).
C15_ThreeTierImageLowerCased ==
    /\ category \in { "general", "General", "news", "News", "maps" }
    /\ NormalizedWith(IF mode = "search" /\ category \in { "news", "News" }
                      THEN NewsPlaceholder
                      ELSE GeneralPlaceholder)

\* hits without thumbnail, with a real one and without title, under a
\* category that is in the table
C15_Witness ==
    /\ mode = "search"
    /\ category = "news"
    /\ Returned
    /\ Len(response.body.results) >= 4
    /\ response.body.results[1].image = NewsPlaceholder
    /\ response.body.results[4].image = << "img", "4" >>
    /\ "title" \notin DOMAIN UpstreamHits[3]
    /\ response.body.results[3].title = << >>

----------------------------------------------------------------------------
(* C17 *)

\* C17: the results of a normal response are the first min(num_results, hits)
\* upstream hits in upstream order: the i-th result carries the url, title and
\* content of the i-th hit.
C17_ResultsArePrefix ==
    Returned =>
        /\ Len(response.body.results) = Min(num_results, Len(UpstreamHits))
        /\ \A i \in 1..Len(response.body.results) :
              \A key \in { "url", "title", "content" } :
                  /\ key \in DOMAIN response.body.results[i]
                  /\ key \in DOMAIN UpstreamHits[i] =>
                        response.body.results[i][key] = UpstreamHits[i][key]

\* more hits than results, and both completion calls failed
C17_Witness ==
    /\ mode = "chat"
    /\ Returned
    /\ CompletionFailed("summary")
    /\ CompletionFailed("answer")
    /\ Len(response.body.results) = 2
    /\ Len(UpstreamHits) > 2
    /\ response.body.results[2].url = << "u", "2" >>

----------------------------------------------------------------------------
(* C16 *)

\* the image of a hit under the dict CATEGORY_IMAGES as the module defines it
ImportedImage(hit, cat) ==
    IF HasThumbnail(hit) THEN hit.thumbnail
    ELSE IF Lower(cat) \in DOMAIN CATEGORY_IMAGES THEN CATEGORY_IMAGES[Lower(cat)]
    ELSE CATEGORY_IMAGES["general"]

ImportedResults(hits, limit, cat) ==
    [ i \in 1..Min(limit, Len(hits)) |->
        [ url     |-> FieldOrEmpty(hits[i], "url"),
          title   |-> FieldOrEmpty(hits[i], "title"),
          content |-> FieldOrEmpty(hits[i], "content"),
          image   |-> ImportedImage(hits[i], cat) ] ]

TextOrError(o, sentinel) ==
    IF o.raised \/ o.content = NONE THEN sentinel ELSE Strip(o.content)

\* The response of request r run alone: a function of r's own parameters and
\* body and of what r's own upstream calls met (r.provider, r.returns), under
\* the process-wide state as the module defines it.
OutcomeAlone(r) ==
    IF r.mode = "search"
    THEN IF ~r.provider.ok
         THEN [ status |-> 502,
                detail |-> << "Error contacting SearXNG: " >> \o r.provider.error ]
         ELSE IF r.provider.results = << >>
         THEN [ status |-> 200,
                body   |-> [ query |-> r.q, results |-> << >>,
                             summary |-> << "No results found." >> ] ]
         ELSE IF r.returns[2].raised \/ r.returns[2].content = NONE
         THEN [ status |-> 502,
                detail |-> << "Error contacting OpenAI: " >> \o CompletionError(r.returns[2]) ]
         ELSE [ status |-> 200,
                body   |-> [ query   |-> r.q,
                             results |-> ImportedResults(r.provider.results,
                                                         r.num_results, r.category),
                             summary |-> Strip(r.returns[2].content) ] ]
    ELSE LET h == r.payload.messages
             U == UserIn(h, Trailing(h))
             active == Strip(LastUserTurn(h).content)
         IN  IF \A i \in 1..Len(h) : h[i].role = "user" => Blank(h[i].content)
             THEN [ status |-> 400, detail |-> << "Empty messages" >> ]
             ELSE IF U = {}
             THEN [ status |-> 400,
                    detail |-> << "No user message found in last 10 messages" >> ]
             ELSE IF ~r.provider.ok
             THEN [ status |-> 502,
                    detail |-> << "Error contacting SearXNG: " >> \o r.provider.error ]
             ELSE IF r.provider.results = << >>
             THEN [ status |-> 200,
                    body   |-> [ query   |-> active,
                                 results |-> << >>,
                                 summary |-> << "No search results found." >>,
                                 reply   |-> << "I couldn't find any relevant search results." >> ] ]
             ELSE [ status |-> 200,
                    body   |-> [ query   |-> active,
                                 results |-> ImportedResults(r.provider.results,
                                                             r.num_results, "general"),
                                 summary |-> TextOrError(r.returns[2],
                                                << "Error generating summary." >>),
                                 reply   |-> TextOrError(r.returns[3],
                                                << "Error generating chat reply: " >>
                                                \o CompletionError(r.returns[3])) ] ]

\* C16: handling a request writes no process-wide state (the category-to-image
\* dict and the endpoint address stay as the module defines them), and under
\* any interleaving of two requests in flight the response of each is the one
\* it gets when run alone on the same inputs and the same upstream answers.
C16_RequestsIndependent ==
    /\ category_images = CATEGORY_IMAGES
    /\ searxng_url = SEARXNG_URL
    /\ \A i \in 1..Len(calls) : calls[i].api = "searxng" => calls[i].url = SEARXNG_URL
    /\ pc = "done" => response = OutcomeAlone(Context)
    /\ waiting.pc = "done" => waiting.response = OutcomeAlone(waiting)

\* a news search and a chat request, both in flight at once, both answered
\* with results that carry a placeholder image
C16_Witness ==
    /\ mode = "chat"
    /\ pc = "done"
    /\ Returned
    /\ response.body.results # << >>
    /\ response.body.results[1].image = GeneralPlaceholder
    /\ waiting.pc = "done"
    /\ waiting.mode = "search"
    /\ waiting.category = "news"
    /\ waiting.response.status = 200
    /\ waiting.response.body.results # << >>
    /\ waiting.response.body.results[1].image = NewsPlaceholder

====
